---- MODULE Spec2Model ----
(***************************************************************************)
(* Model of src/deploy/functions/deploymentPlanner.ts:                     *)
(*   createFunctionsByRegionMap  (the region mapper)                       *)
(*   createDeploymentPlan        (the deployment planner)                  *)
(*                                                                         *)
(* Strings are sequences of tokens; the separators "/" and "-" are tokens  *)
(* of their own, so that joining and splitting are computed.               *)
(* JavaScript objects live in heaps (sequences indexed by object id), so   *)
(* that aliasing, in-place mutation and deep copies are visible.           *)
(***************************************************************************)
EXTENDS Integers, Sequences, FiniteSets, TLC

VARIABLES
    \* ---- createFunctionsByRegionMap ----
    pcM,             \* "idle" | "loop" | "returned" | "mutated"
    parsedTriggers,  \* the argument: sequence of object ids into fnHeap
    fnHeap,          \* CloudFunctionTrigger objects, by id
    etHeap,          \* eventTrigger objects, by id
    regionMap,       \* the result being built: entries [region, fns] in key order
    nextTrigger,     \* index of the next element of parsedTriggers to visit
    copyOf,          \* for every object id, the input id it was copied from (0: an input)
    fnHeap0,         \* fnHeap as it was when the call started
    etHeap0,         \* etHeap as it was when the call started
    touched,         \* the object id the caller changed after the call (0: none)
    viewBefore,      \* what every object looked like just before that change
    \* ---- createDeploymentPlan ----
    pcP,             \* "idle" | "region" | "fns" | "delete" | "returned" | "thrown"
    functionsInSourceByRegion, \* the argument: entries [region, fns] in key order
    existingFunctions,         \* the parameter, reassigned by the code
    filters,                   \* the argument
    deployment,                \* the DeploymentPlan being built
    regionalDeployment,        \* the RegionalDeployment of the current region
    regionIdx,                 \* position of the for-in loop over the regions
    fnIdx,                     \* position of the for-of loop over the region's list
    error,                     \* the exception that ended the call ("none": none)
    source0,                   \* functionsInSourceByRegion when the call started
    existing0                  \* existingFunctions when the call started

varsM == <<pcM, parsedTriggers, fnHeap, etHeap, regionMap, nextTrigger, copyOf,
           fnHeap0, etHeap0, touched, viewBefore>>
varsP == <<pcP, functionsInSourceByRegion, existingFunctions, filters, deployment,
           regionalDeployment, regionIdx, fnIdx, error, source0, existing0>>
vars == <<varsM, varsP>>

(***************************************************************************)
(* Bounds of the model.                                                    *)
(***************************************************************************)
MaxTriggers == 2    \* length of parsedTriggers
MaxRegions == 2     \* length of one definition's regions list
MaxFns == 2         \* records of a region map given to the planner
MaxExisting == 2    \* length of the existing list given to the planner

(***************************************************************************)
(* Strings.                                                                *)
(***************************************************************************)
Slash == "/"
Dash == "-"

RECURSIVE Join(_, _)
\* Array.prototype.join: the parts with the separator between them.
Join(parts, sep) ==
    IF parts = <<>> THEN <<>>
    ELSE IF Len(parts) = 1 THEN Head(parts)
    ELSE Head(parts) \o <<sep>> \o Join(Tail(parts), sep)

RECURSIVE Split(_, _)
\* String.prototype.split: the pieces between the separators.
Split(s, sep) ==
    IF \A i \in 1..Len(s) : s[i] # sep THEN <<s>>
    ELSE LET k == CHOOSE i \in 1..Len(s) :
                      s[i] = sep /\ \A j \in 1..(i - 1) : s[j] # sep
         IN <<SubSeq(s, 1, k - 1)>> \o Split(SubSeq(s, k + 1, Len(s)), sep)

Range(s) == {s[i] : i \in 1..Len(s)}

RECURSIVE SeqsUpTo(_, _)
\* All sequences over S of length at most n.
SeqsUpTo(S, n) ==
    IF n = 0 THEN {<<>>}
    ELSE LET shorter == SeqsUpTo(S, n - 1)
         IN shorter \cup {Append(s, x) : s \in {t \in shorter : Len(t) = n - 1}, x \in S}

(***************************************************************************)
(* createFunctionsByRegionMap                                              *)
(***************************************************************************)
projectId == <<"p">>
DefaultRegion == <<"us", Dash, "central1">>
InputRegions == {<<"us", Dash, "east1">>, <<"us", Dash, "west1">>}
LocalNames == <<<<"a">>, <<"b">>, <<"c">>, <<"d">>>>
UserResource == <<"user", Dash, "topic">>

NoRegions == [present |-> FALSE, list |-> <<>>]

\* A trigger as the caller passes it: regions absent or a list (possibly empty,
\* possibly with repeats); an https function or a scheduled one.
RegionsInputs ==
    {NoRegions} \cup {[present |-> TRUE, list |-> l] : l \in SeqsUpTo(InputRegions, MaxRegions)}

TriggerKinds == {"https", "scheduled"}

\* The name the function is given in one region (lines 67-74).
FullName(region, localName) ==
    Join(<<<<"projects">>, projectId, <<"locations">>, region, <<"functions">>, localName>>,
         Slash)


\* functionsDeployHelper.getTopicName: the topic a scheduled function listens to,
\* derived from the function's name.
getTopicName(name) == <<"firebase", Dash, "schedule", Dash>> \o name

\* The input objects of a call: trigger i is named LocalNames[i]; a scheduled
\* trigger has a schedule and an eventTrigger object of its own.
EtIdOf(kinds, i) ==
    IF kinds[i] = "scheduled"
    THEN Cardinality({j \in 1..i : kinds[j] = "scheduled"})
    ELSE 0

InputTrigger(kinds, regs, i) ==
    [name |-> LocalNames[i],
     regions |-> regs[i],
     schedule |-> kinds[i] = "scheduled",
     eventTrigger |-> EtIdOf(kinds, i)]

InputEventTrigger == [resource |-> UserResource]

\* regionMap[region] = regionMap[region] || []; regionMap[region].push(id)
\* (lines 75-76). Keys keep their insertion order.
RegionMapPush(rm, region, id) ==
    IF \E k \in 1..Len(rm) : rm[k].region = region
    THEN [k \in 1..Len(rm) |->
             IF rm[k].region = region
             THEN [rm[k] EXCEPT !.fns = Append(@, id)]
             ELSE rm[k]]
    ELSE Append(rm, [region |-> region, fns |-> <<id>>])

\* A copy that shares the eventTrigger object of the original.
ShallowCopy(fns, ets, src) ==
    [obj |-> fns[src], ets |-> ets]

\* JSON.parse(JSON.stringify(trigger)) (line 63): a new object whose nested
\* eventTrigger object is new as well.
DeepCopy(fns, ets, src) ==
    IF fns[src].eventTrigger # 0
    THEN [obj |-> [fns[src] EXCEPT !.eventTrigger = Len(ets) + 1],
          ets |-> Append(ets, ets[fns[src].eventTrigger])]
    ELSE [obj |-> fns[src], ets |-> ets]

\* if (triggerDeepCopy.regions) delete triggerDeepCopy.regions (lines 64-66);
\* an array, even an empty one, is truthy.
StripRegions(obj) ==
    IF obj.regions.present THEN [obj EXCEPT !.regions = NoRegions] ELSE obj

\* One iteration of the inner loop (lines 62-77) for trigger src and one region.
CopyStep(st, src, region) ==
    LET c == DeepCopy(st.fns, st.ets, src)
        copy == [StripRegions(c.obj) EXCEPT !.name = FullName(region, st.fns[src].name)]
    IN [fns |-> Append(st.fns, copy),
        ets |-> c.ets,
        rm |-> RegionMapPush(st.rm, region, Len(st.fns) + 1),
        org |-> Append(st.org, src)]

RECURSIVE RegionLoop(_, _, _)
\* for (const region of trigger.regions) (line 62)
RegionLoop(st, src, regions) ==
    IF regions = <<>> THEN st
    ELSE RegionLoop(CopyStep(st, src, Head(regions)), src, Tail(regions))

\* if (!trigger.regions) trigger.regions = ["us-central1"] (lines 57-59):
\* written into the caller's object.
DefaultRegions(fns, src) ==
    IF ~fns[src].regions.present
    THEN [fns EXCEPT ![src].regions = [present |-> TRUE, list |-> <<DefaultRegion>>]]
    ELSE fns

PlannerIdle ==
    /\ pcP = "idle"
    /\ functionsInSourceByRegion = <<>>
    /\ existingFunctions = <<>>
    /\ filters = <<>>
    /\ deployment = <<>>
    /\ regionalDeployment = <<>>
    /\ regionIdx = 0
    /\ fnIdx = 0
    /\ error = "none"
    /\ source0 = <<>>
    /\ existing0 = <<>>

\* The state when createFunctionsByRegionMap is entered (line 55).
InitMap ==
    /\ \E n \in 0..MaxTriggers :
       \E kinds \in [1..n -> TriggerKinds], regs \in [1..n -> RegionsInputs] :
          /\ parsedTriggers = [i \in 1..n |-> i]
          /\ fnHeap = [i \in 1..n |-> InputTrigger(kinds, regs, i)]
          /\ etHeap = [e \in 1..Cardinality({j \in 1..n : kinds[j] = "scheduled"})
                          |-> InputEventTrigger]
          /\ copyOf = [i \in 1..n |-> 0]
    /\ fnHeap0 = fnHeap
    /\ etHeap0 = etHeap
    /\ regionMap = <<>>
    /\ nextTrigger = 1
    /\ touched = 0
    /\ viewBefore = <<>>
    /\ pcM = "loop"
    /\ PlannerIdle

\* One iteration of the outer loop (lines 56-78).
MapTrigger ==
    /\ pcM = "loop"
    /\ nextTrigger <= Len(parsedTriggers)
    /\ LET src == parsedTriggers[nextTrigger]
           fns1 == DefaultRegions(fnHeap, src)
           st == RegionLoop([fns |-> fns1, ets |-> etHeap, rm |-> regionMap,
                             org |-> copyOf],
                            src, fns1[src].regions.list)
       IN /\ fnHeap' = st.fns
          /\ etHeap' = st.ets
          /\ regionMap' = st.rm
          /\ copyOf' = st.org
    /\ nextTrigger' = nextTrigger + 1
    /\ UNCHANGED <<pcM, parsedTriggers, fnHeap0, etHeap0, touched, viewBefore>>
    /\ UNCHANGED varsP

\* return regionMap (line 79)
MapReturn ==
    /\ pcM = "loop"
    /\ nextTrigger > Len(parsedTriggers)
    /\ pcM' = "returned"
    /\ UNCHANGED <<parsedTriggers, fnHeap, etHeap, regionMap, nextTrigger, copyOf,
                   fnHeap0, etHeap0, touched, viewBefore>>
    /\ UNCHANGED varsP

\* The ids of the records of the returned map.
Outputs == UNION {Range(regionMap[k].fns) : k \in 1..Len(regionMap)}

\* All that can be read through object id: its fields and those of its eventTrigger.
View(id) ==
    [fn |-> fnHeap[id],
     et |-> IF fnHeap[id].eventTrigger = 0 THEN <<>>
            ELSE <<etHeap[fnHeap[id].eventTrigger]>>]

\* What the caller does to a returned record afterwards, as createDeploymentPlan
\* does at line 134: fn.eventTrigger.resource = getTopicName(fn.name).
RewriteResource ==
    /\ pcM = "returned"
    /\ \E o \in Outputs :
          /\ fnHeap[o].eventTrigger # 0
          /\ etHeap' = [etHeap EXCEPT ![fnHeap[o].eventTrigger].resource =
                                          getTopicName(fnHeap[o].name)]
          /\ touched' = o
    /\ viewBefore' = [id \in 1..Len(fnHeap) |-> View(id)]
    /\ pcM' = "mutated"
    /\ UNCHANGED <<parsedTriggers, fnHeap, regionMap, nextTrigger, copyOf, fnHeap0, etHeap0>>
    /\ UNCHANGED varsP

NextMap == MapTrigger \/ MapReturn \/ RewriteResource

SpecMap == InitMap /\ [][NextMap]_vars

(***************************************************************************)
(* Properties of createFunctionsByRegionMap                                *)
(***************************************************************************)
Inputs == 1..Len(parsedTriggers)

\* The places <<k, j>> of the map that hold a record made from input i.
PositionsOf(i) ==
    {<<k, j>> \in (1..Len(regionMap)) \X (1..Len(fnHeap)) :
        j <= Len(regionMap[k].fns) /\ copyOf[regionMap[k].fns[j]] = i}

\* The records made from input i, in the order they were made.
CopiesOf(i) ==
    LET Made(o) == copyOf[o] = i
    IN SelectSeq([o \in 1..Len(fnHeap) |-> o], Made)

\* The region key under which record o is filed.
KeysOf(o) == {regionMap[k].region : k \in {q \in 1..Len(regionMap) : o \in Range(regionMap[q].fns)}}

\* C5: regions is used when present and non-empty; when it is absent or an empty
\* list the definition gets exactly one record, under us-central1; so every
\* definition has at least one record in the returned map.
C5_EveryDefinitionMapped ==
    pcM = "returned" =>
        \A i \in Inputs :
            LET r0 == fnHeap0[i].regions
                useList == r0.present /\ r0.list # <<>>
            IN /\ Cardinality(PositionsOf(i)) >= 1
               /\ useList =>
                     /\ Len(CopiesOf(i)) = Len(r0.list)
                     /\ \A k \in 1..Len(r0.list) : KeysOf(CopiesOf(i)[k]) = {r0.list[k]}
               /\ ~useList =>
                     /\ Cardinality(PositionsOf(i)) = 1
                     /\ \A pos \in PositionsOf(i) : regionMap[pos[1]].region = DefaultRegion

\* What holds for the records of one definition whatever its regions entries are:
\* one record per entry, filed once under that entry's region and named for it,
\* without a regions field; and a change made to one record is seen through no
\* other object.
RecordsPerEntry(i) ==
    LET r0 == fnHeap0[i].regions
        cs == CopiesOf(i)
    IN /\ Len(cs) = Len(r0.list)
       /\ Cardinality(PositionsOf(i)) = Len(r0.list)
       /\ \A k \in 1..Len(cs) :
             /\ KeysOf(cs[k]) = {r0.list[k]}
             /\ fnHeap[cs[k]].name = FullName(r0.list[k], fnHeap0[i].name)
             /\ ~fnHeap[cs[k]].regions.present

Independent ==
    pcM = "mutated" =>
        \A id \in 1..Len(fnHeap) : id # touched => View(id) = viewBefore[id]

\* C6 as stated: N entries give N records with N pairwise distinct names, each
\* without a regions field and each an independent copy.
C6_DistinctNamesPerEntry ==
    /\ pcM \in {"returned", "mutated"} =>
          \A i \in Inputs :
              fnHeap0[i].regions.present =>
                  /\ RecordsPerEntry(i)
                  /\ \A k1, k2 \in 1..Len(CopiesOf(i)) :
                        k1 # k2 => fnHeap[CopiesOf(i)[k1]].name # fnHeap[CopiesOf(i)[k2]].name
    /\ Independent

\* C6 as amended: N entries give N records, the k-th named for and filed under
\* the k-th entry; two of them have the same name exactly when their entries are
\* the same region; none has a regions field and each is an independent copy.
C6_RecordsPerEntry ==
    /\ pcM \in {"returned", "mutated"} =>
          \A i \in Inputs :
              fnHeap0[i].regions.present =>
                  /\ RecordsPerEntry(i)
                  /\ \A k1, k2 \in 1..Len(CopiesOf(i)) :
                        (fnHeap[CopiesOf(i)[k1]].name = fnHeap[CopiesOf(i)[k2]].name)
                            <=> (fnHeap0[i].regions.list[k1] = fnHeap0[i].regions.list[k2])
    /\ Independent

\* A scheduled definition with two different regions was mapped and the caller
\* has rewritten the resource of one of its two records.
C6_Witness ==
    /\ pcM = "mutated"
    /\ copyOf[touched] # 0
    /\ LET r0 == fnHeap0[copyOf[touched]].regions
       IN r0.present /\ Len(r0.list) = 2 /\ r0.list[1] # r0.list[2]
    /\ View(touched) # viewBefore[touched]
    /\ etHeap[fnHeap[touched].eventTrigger].resource = getTopicName(fnHeap[touched].name)

\* C7: after the call the input list and every input definition are as they were
\* before it.
C7_InputsUntouched ==
    pcM = "returned" =>
        /\ parsedTriggers = [i \in Inputs |-> i]
        /\ \A i \in Inputs : fnHeap[i] = fnHeap0[i]
        /\ \A e \in 1..Len(etHeap0) : etHeap[e] = etHeap0[e]

(***************************************************************************)
(* createDeploymentPlan                                                    *)
(***************************************************************************)
East == <<"us", Dash, "east1">>
West == <<"us", Dash, "west1">>
RegionKeys == <<East, West>>

\* The names that occur in the desired map and in the existing list.
PlanNames == {FullName(East, <<"a">>), FullName(West, <<"b">>)}

NoEventTrigger == [present |-> FALSE, resource |-> <<>>]

\* A desired record: an https function or a scheduled function; beyond the
\* declared shapes, a record with a schedule and no eventTrigger.
DesiredKinds == {"https", "scheduled"}
AnyKinds == DesiredKinds \cup {"malformed"}

DesiredRecord(name, kind) ==
    [name |-> name,
     schedule |-> kind # "https",
     eventTrigger |-> IF kind = "scheduled"
                      THEN [present |-> TRUE, resource |-> UserResource]
                      ELSE NoEventTrigger]

DesiredRecords(kinds) == {DesiredRecord(n, k) : n \in PlanNames, k \in kinds}

\* The labels of an existing record, as far as the planner reads them: owned by
\* this tool, owned and scheduled, scheduled and not owned; beyond the declared
\* shapes (line 7), no labels at all.
LabelInputs ==
    {[defined |-> TRUE, tool |-> "cli-firebase", scheduled |-> "absent"],
     [defined |-> TRUE, tool |-> "cli-firebase", scheduled |-> "true"],
     [defined |-> TRUE, tool |-> "absent", scheduled |-> "true"]}
AnyLabels == LabelInputs \cup {[defined |-> FALSE, tool |-> "absent", scheduled |-> "absent"]}

ExistingRecords(labels) == {[name |-> n, labels |-> l] : n \in PlanNames, l \in labels}

\* filters: no filter, or the one group <<"a">>.
FilterInputs == {<<>>, << <<<<"a">>>> >>}

\* functionsDeployHelper.functionMatchesGroup: the chunks of the group are the
\* first chunks of the function's local name.
functionMatchesGroup(name, group) ==
    LET segments == Split(name, Slash)
        chunks == Split(segments[Len(segments)], Dash)
    IN /\ Len(group) <= Len(chunks)
       /\ SubSeq(chunks, 1, Len(group)) = group

\* functionsDeployHelper.functionMatchesAnyGroup: selected by at least one group;
\* an empty filter list selects everything.
functionMatchesAnyGroup(name, fs) ==
    \/ fs = <<>>
    \/ \E g \in 1..Len(fs) : functionMatchesGroup(name, fs[g])

\* deploymentTool.check: the record carries the label of this tool.
deploymentToolCheck(labels) ==
    labels.defined /\ labels.tool = "cli-firebase"

\* labels?.["deployment-scheduled"] === "true" (lines 130, 170)
IsScheduledLabel(labels) ==
    labels.defined /\ labels.scheduled = "true"

Names(recs) == [i \in 1..Len(recs) |-> recs[i].name]

\* existingFunctions.find(exFn => exFn.name === fn.name) (lines 125-127): the
\* position of the first record of that name, 0 when there is none.
FindExisting(existing, name) ==
    IF \E i \in 1..Len(existing) : existing[i].name = name
    THEN CHOOSE i \in 1..Len(existing) :
             existing[i].name = name /\ \A j \in 1..(i - 1) : existing[j].name # name
    ELSE 0

\* The matched record stays in the working list.
KeepMatched(existing, name) == existing

\* existingFunctions.filter(exFn => exFn.name !== fn.name) (lines 146-148)
RemoveMatched(existing, name) ==
    LET Other(exFn) == exFn.name # name
    IN SelectSeq(existing, Other)

\* The resource is left as the caller wrote it.
KeepResource(fn) == fn

\* fn.eventTrigger.resource = getTopicName(fn.name) (line 134), on an
\* eventTrigger that is there.
RewriteTrigger(fn) ==
    [fn EXCEPT !.eventTrigger.resource = getTopicName(fn.name)]

\* The schedule of the existing function is deleted without looking at fn.schedule.
ScheduleDeletesNoElse(std, fn, existing, m) ==
    IF m # 0 /\ IsScheduledLabel(existing[m].labels)
    THEN Append(std, existing[m].name)
    ELSE std

\* schedulesToDelete after lines 132-140 for fn and its match at position m.
ScheduleDeletes(std, fn, existing, m) ==
    IF fn.schedule THEN std
    ELSE IF m # 0 /\ IsScheduledLabel(existing[m].labels)
         THEN Append(std, existing[m].name)
         ELSE std

\* The record goes to functionsToCreate, and to functionsToUpdate as well when matched.
FileFunctionNoElse(rd, ref, m) ==
    IF m = 0
    THEN [rd EXCEPT !.functionsToCreate = Append(@, ref)]
    ELSE [rd EXCEPT !.functionsToCreate = Append(@, ref),
                    !.functionsToUpdate = Append(@, ref)]

\* Lines 142-145: to functionsToCreate when nothing matched, else to functionsToUpdate.
FileFunction(rd, ref, m) ==
    IF m = 0
    THEN [rd EXCEPT !.functionsToCreate = Append(@, ref)]
    ELSE [rd EXCEPT !.functionsToUpdate = Append(@, ref)]

\* The deletion pass without the ownership check.
FunctionsToDeleteUnowned(existing, fs) ==
    LET Scoped(fn) == IF Len(fs) # 0 THEN functionMatchesAnyGroup(fn.name, fs) ELSE TRUE
    IN SelectSeq(existing, Scoped)

\* Lines 158-164: the remaining records that this tool owns and, when there are
\* filters, that a filter group selects.
FunctionsToDelete(existing, fs) ==
    LET Owned(fn) == deploymentToolCheck(fn.labels)
        Scoped(fn) == IF Len(fs) # 0 THEN functionMatchesAnyGroup(fn.name, fs) ELSE TRUE
    IN SelectSeq(SelectSeq(existing, Owned), Scoped)

EmptyPlan ==
    [regionalDeployments |-> <<>>, functionsToDelete |-> <<>>, schedulesToDelete |-> <<>>]

MapperIdle ==
    /\ pcM = "idle"
    /\ parsedTriggers = <<>>
    /\ fnHeap = <<>>
    /\ etHeap = <<>>
    /\ regionMap = <<>>
    /\ nextTrigger = 0
    /\ copyOf = <<>>
    /\ fnHeap0 = <<>>
    /\ etHeap0 = <<>>
    /\ touched = 0
    /\ viewBefore = <<>>

\* The region map with nKeys keys whose lists are flat cut at split.
RegionMapInput(flat, nKeys, split) ==
    [k \in 1..nKeys |->
        [region |-> RegionKeys[k],
         fns |-> IF k = 1 THEN SubSeq(flat, 1, split)
                 ELSE SubSeq(flat, split + 1, Len(flat))]]

\* The state when createDeploymentPlan is entered (lines 107-111), its arguments
\* made of records of the given kinds and labels.
PlanEntered(kinds, labels) ==
    /\ \E flat \in SeqsUpTo(DesiredRecords(kinds), MaxFns), nKeys \in 0..Len(RegionKeys) :
       \E split \in 0..Len(flat) :
          /\ nKeys = 0 => flat = <<>>
          /\ nKeys = 1 => split = Len(flat)
          /\ functionsInSourceByRegion = RegionMapInput(flat, nKeys, split)
    /\ existingFunctions \in SeqsUpTo(ExistingRecords(labels), MaxExisting)
    /\ filters \in FilterInputs
    /\ source0 = functionsInSourceByRegion
    /\ existing0 = existingFunctions
    /\ deployment = EmptyPlan
    /\ regionalDeployment = <<>>
    /\ regionIdx = 1
    /\ fnIdx = 0
    /\ error = "none"
    /\ pcP = "region"
    /\ MapperIdle

\* The for-in loop enters a region (lines 113-120).
StartRegion ==
    /\ pcP = "region"
    /\ regionIdx <= Len(functionsInSourceByRegion)
    /\ regionalDeployment' =
           <<[region |-> functionsInSourceByRegion[regionIdx].region,
              functionsToCreate |-> <<>>,
              functionsToUpdate |-> <<>>,
              schedulesToCreateOrUpdate |-> <<>>]>>
    /\ fnIdx' = 1
    /\ pcP' = "fns"
    /\ UNCHANGED <<functionsInSourceByRegion, existingFunctions, filters, deployment,
                   regionIdx, error, source0, existing0>>
    /\ UNCHANGED varsM

CurrentFn == functionsInSourceByRegion[regionIdx].fns[fnIdx]

AtFn ==
    /\ pcP = "fns"
    /\ fnIdx <= Len(functionsInSourceByRegion[regionIdx].fns)

\* A function the filters do not select is passed over (line 123).
SkipFn ==
    /\ AtFn
    /\ ~functionMatchesAnyGroup(CurrentFn.name, filters)
    /\ fnIdx' = fnIdx + 1
    /\ UNCHANGED <<pcP, functionsInSourceByRegion, existingFunctions, filters, deployment,
                   regionalDeployment, regionIdx, error, source0, existing0>>
    /\ UNCHANGED varsM

\* Line 134 on a record without eventTrigger: the assignment to a property of
\* undefined throws a TypeError, which ends the call.
ThrowFn ==
    /\ AtFn
    /\ functionMatchesAnyGroup(CurrentFn.name, filters)
    /\ CurrentFn.schedule
    /\ ~CurrentFn.eventTrigger.present
    /\ error' = "TypeError"
    /\ pcP' = "thrown"
    /\ UNCHANGED <<functionsInSourceByRegion, existingFunctions, filters, deployment,
                   regionalDeployment, regionIdx, fnIdx, source0, existing0>>
    /\ UNCHANGED varsM

\* One selected function is planned (lines 123-150).
PlanFn ==
    /\ AtFn
    /\ functionMatchesAnyGroup(CurrentFn.name, filters)
    /\ CurrentFn.schedule => CurrentFn.eventTrigger.present
    /\ LET fn == CurrentFn
           ref == <<regionIdx, fnIdx>>
           m == FindExisting(existingFunctions, fn.name)
           rd == regionalDeployment[1]
           rd1 == IF fn.schedule
                  THEN [rd EXCEPT !.schedulesToCreateOrUpdate = Append(@, ref)]
                  ELSE rd
       IN /\ functionsInSourceByRegion' =
                 IF fn.schedule
                 THEN [functionsInSourceByRegion EXCEPT
                          ![regionIdx].fns[fnIdx] = RewriteTrigger(fn)]
                 ELSE functionsInSourceByRegion
          /\ deployment' = [deployment EXCEPT !.schedulesToDelete =
                               ScheduleDeletes(@, fn, existingFunctions, m)]
          /\ regionalDeployment' = <<FileFunction(rd1, ref, m)>>
          /\ existingFunctions' =
                 IF m = 0 THEN existingFunctions
                 ELSE RemoveMatched(existingFunctions, fn.name)
    /\ fnIdx' = fnIdx + 1
    /\ UNCHANGED <<pcP, filters, regionIdx, error, source0, existing0>>
    /\ UNCHANGED varsM

\* The region's list is done: its RegionalDeployment joins the plan (line 152).
EndRegion ==
    /\ pcP = "fns"
    /\ fnIdx > Len(functionsInSourceByRegion[regionIdx].fns)
    /\ deployment' = [deployment EXCEPT !.regionalDeployments =
                         Append(@, regionalDeployment[1])]
    /\ regionIdx' = regionIdx + 1
    /\ pcP' = "region"
    /\ UNCHANGED <<functionsInSourceByRegion, existingFunctions, filters,
                   regionalDeployment, fnIdx, error, source0, existing0>>
    /\ UNCHANGED varsM

\* After the last region: the deletion pass and the return (lines 155-174).
DeletionPass ==
    /\ pcP = "region"
    /\ regionIdx > Len(functionsInSourceByRegion)
    /\ LET functionsToDelete == FunctionsToDelete(existingFunctions, filters)
           Scheduled(fn) == IsScheduledLabel(fn.labels)
       IN deployment' = [deployment EXCEPT
              !.functionsToDelete = Names(functionsToDelete),
              !.schedulesToDelete = @ \o Names(SelectSeq(functionsToDelete, Scheduled))]
    /\ pcP' = "returned"
    /\ UNCHANGED <<functionsInSourceByRegion, existingFunctions, filters,
                   regionalDeployment, regionIdx, fnIdx, error, source0, existing0>>
    /\ UNCHANGED varsM

\* Arguments of the declared shapes: every scheduled record has an eventTrigger
\* and every existing record has labels.
InitPlan == PlanEntered(DesiredKinds, LabelInputs)

NextPlan == StartRegion \/ SkipFn \/ PlanFn \/ EndRegion \/ DeletionPass

SpecPlan == InitPlan /\ [][NextPlan]_vars

\* Any arguments, records without eventTrigger or without labels included.
InitPlanAny == PlanEntered(AnyKinds, AnyLabels)

NextPlanAny == StartRegion \/ SkipFn \/ ThrowFn \/ PlanFn \/ EndRegion \/ DeletionPass

SpecPlanAny == InitPlanAny /\ [][NextPlanAny]_vars

(***************************************************************************)
(* Properties of createDeploymentPlan                                      *)
(***************************************************************************)
\* The record a list entry refers to, as it is now.
Deref(ref) == functionsInSourceByRegion[ref[1]].fns[ref[2]]

RefNames(refs) == [i \in 1..Len(refs) |-> Deref(refs[i]).name]

Count(seq, x) == Cardinality({i \in 1..Len(seq) : seq[i] = x})

\* The places of a region map.
Places(src) ==
    {<<k, j>> \in (1..Len(src)) \X (1..MaxFns) : j <= Len(src[k].fns)}

\* No two records of the desired map have the same name.
DesiredNamesDistinct ==
    \A p, q \in Places(source0) :
        p # q => source0[p[1]].fns[p[2]].name # source0[q[1]].fns[q[2]].name

\* The desired records the filters select.
Selected == {p \in Places(source0) :
                functionMatchesAnyGroup(source0[p[1]].fns[p[2]].name, filters)}

\* Every entry of a functionsToCreate or functionsToUpdate list of the plan.
Targets ==
    {t \in (1..Len(deployment.regionalDeployments)) \X {"create", "update"} \X (1..MaxFns) :
        t[3] <= Len(IF t[2] = "create"
                    THEN deployment.regionalDeployments[t[1]].functionsToCreate
                    ELSE deployment.regionalDeployments[t[1]].functionsToUpdate)}

TargetRef(t) ==
    IF t[2] = "create"
    THEN deployment.regionalDeployments[t[1]].functionsToCreate[t[3]]
    ELSE deployment.regionalDeployments[t[1]].functionsToUpdate[t[3]]

TargetNames == {Deref(TargetRef(t)).name : t \in Targets}

\* The names of the records of the schedulesToCreateOrUpdate lists.
ScheduleTargetNames ==
    UNION {Range(RefNames(deployment.regionalDeployments[r].schedulesToCreateOrUpdate)) :
              r \in 1..Len(deployment.regionalDeployments)}

TargetsDistinct ==
    \A t, u \in Targets : t # u => Deref(TargetRef(t)).name # Deref(TargetRef(u)).name

\* C1 as stated: for every region map the names in functionsToCreate and
\* functionsToUpdate over all regions are pairwise distinct.
C1_TargetsDistinctAlways ==
    pcP = "returned" => TargetsDistinct

\* C1 as amended: when no two records of the region map have the same name, the
\* names in functionsToCreate and functionsToUpdate over all regions are
\* pairwise distinct.
C1_TargetsDistinct ==
    (pcP = "returned" /\ DesiredNamesDistinct) => TargetsDistinct

\* Two desired records of different names were planned in two regions, one
\* created and one updated.
C1_Witness ==
    /\ pcP = "returned"
    /\ DesiredNamesDistinct
    /\ Len(deployment.regionalDeployments) = 2
    /\ Len(deployment.regionalDeployments[1].functionsToUpdate) = 1
    /\ Len(deployment.regionalDeployments[2].functionsToCreate) = 1

\* C2: no name of functionsToDelete is in a functionsToCreate or
\* functionsToUpdate list; an existing function with the name of a selected
\* desired function is never in functionsToDelete.
C2_DeleteDisjoint ==
    pcP = "returned" =>
        /\ Range(deployment.functionsToDelete) \cap TargetNames = {}
        /\ \A p \in Selected :
              source0[p[1]].fns[p[2]].name \notin Range(deployment.functionsToDelete)

\* An owned existing function was updated while another one was deleted.
C2_Witness ==
    /\ pcP = "returned"
    /\ deployment.functionsToDelete # <<>>
    /\ \E t \in Targets :
          /\ t[2] = "update"
          /\ \E i \in 1..Len(existing0) :
                /\ existing0[i].name = Deref(TargetRef(t)).name
                /\ deploymentToolCheck(existing0[i].labels)

SchedulesDisjoint ==
    Range(deployment.schedulesToDelete) \cap ScheduleTargetNames = {}

\* C3 as stated: no name of schedulesToDelete is the name of a record of a
\* schedulesToCreateOrUpdate list.
C3_SchedulesDisjointAlways ==
    pcP = "returned" => SchedulesDisjoint

\* C3 as amended: when no two records of the region map have the same name, no
\* name of schedulesToDelete is the name of a record of a
\* schedulesToCreateOrUpdate list.
C3_SchedulesDisjoint ==
    (pcP = "returned" /\ DesiredNamesDistinct) => SchedulesDisjoint

\* A scheduled function replaced a scheduled one, and another schedule was deleted.
C3_Witness ==
    /\ pcP = "returned"
    /\ DesiredNamesDistinct
    /\ deployment.schedulesToDelete # <<>>
    /\ \E n \in ScheduleTargetNames :
          \E i \in 1..Len(existing0) :
              existing0[i].name = n /\ IsScheduledLabel(existing0[i].labels)

\* C4: functionsToDelete is exactly the names of the existing records that no
\* selected desired function matched, that this tool owns and, when there are
\* filters, that a filter group selects.
C4_DeleteExactly ==
    pcP = "returned" =>
        LET Matched(n) == \E p \in Selected : source0[p[1]].fns[p[2]].name = n
            Expected(e) ==
                /\ ~Matched(e.name)
                /\ deploymentToolCheck(e.labels)
                /\ (filters # <<>> => \E g \in 1..Len(filters) :
                                          functionMatchesGroup(e.name, filters[g]))
        IN deployment.functionsToDelete = Names(SelectSeq(existing0, Expected))

\* Under a filter, an owned orphan in scope was deleted next to an orphan that
\* was kept, being out of scope or not owned.
C4_Witness ==
    /\ pcP = "returned"
    /\ filters # <<>>
    /\ Len(deployment.functionsToDelete) = 1
    /\ Len(existing0) = 2
    /\ Len(existingFunctions) = 2

\* The existing record is labeled scheduled and a selected desired record of the
\* same name has no schedule.
LostSchedule(i, p) ==
    /\ IsScheduledLabel(existing0[i].labels)
    /\ p \in Selected
    /\ source0[p[1]].fns[p[2]].name = existing0[i].name
    /\ ~source0[p[1]].fns[p[2]].schedule

\* C8 as stated: such a name is in schedulesToDelete exactly once.
C8_OneScheduleDeleteAlways ==
    pcP = "returned" =>
        \A i \in 1..Len(existing0), p \in Places(source0) :
            LostSchedule(i, p) =>
                Count(deployment.schedulesToDelete, existing0[i].name) = 1

\* C8 as amended: such a name is in schedulesToDelete exactly once, provided it
\* is the name of one record only of the desired map and of one record only of
\* the existing list.
C8_OneScheduleDelete ==
    pcP = "returned" =>
        \A i \in 1..Len(existing0), p \in Places(source0) :
            (/\ LostSchedule(i, p)
             /\ Count(Names(existing0), existing0[i].name) = 1
             /\ \A q \in Places(source0) :
                   source0[q[1]].fns[q[2]].name = existing0[i].name => q = p)
                => Count(deployment.schedulesToDelete, existing0[i].name) = 1

\* An owned, scheduled function lost its schedule in the second region, after
\* another function was planned in the first.
C8_Witness ==
    /\ pcP = "returned"
    /\ DesiredNamesDistinct
    /\ \E i \in 1..Len(existing0), p \in Places(source0) :
          /\ LostSchedule(i, p)
          /\ Count(Names(existing0), existing0[i].name) = 1
          /\ deploymentToolCheck(existing0[i].labels)
          /\ p[1] = 2
          /\ Len(source0[1].fns) = 1
          /\ deployment.schedulesToDelete = <<existing0[i].name>>

\* C9: every selected desired function with a schedule is in
\* schedulesToCreateOrUpdate of its region and in functionsToCreate or
\* functionsToUpdate of its region, its resource the topic of its name; no
\* record with a schedule in a create or update list has another resource.
C9_ScheduledRewritten ==
    pcP = "returned" =>
        /\ \A p \in Selected :
              source0[p[1]].fns[p[2]].schedule =>
                  LET rd == deployment.regionalDeployments[p[1]]
                  IN /\ rd.region = source0[p[1]].region
                     /\ p \in Range(rd.schedulesToCreateOrUpdate)
                     /\ p \in Range(rd.functionsToCreate) \cup Range(rd.functionsToUpdate)
                     /\ Deref(p).eventTrigger.present
                     /\ Deref(p).eventTrigger.resource = getTopicName(source0[p[1]].fns[p[2]].name)
        /\ \A t \in Targets :
              Deref(TargetRef(t)).schedule =>
                  Deref(TargetRef(t)).eventTrigger.resource =
                      getTopicName(Deref(TargetRef(t)).name)

\* A scheduled function that replaces an existing one was planned.
C9_Witness ==
    /\ pcP = "returned"
    /\ \E t \in Targets :
          /\ t[2] = "update"
          /\ Deref(TargetRef(t)).schedule
          /\ TargetRef(t) \in
                 Range(deployment.regionalDeployments[t[1]].schedulesToCreateOrUpdate)
          /\ source0[TargetRef(t)[1]].fns[TargetRef(t)[2]].eventTrigger.resource = UserResource

\* C10: a selected desired function with a schedule and no eventTrigger ends the
\* call with a validation error, and no plan is returned.
C10_ValidationError ==
    (/\ pcP \in {"returned", "thrown"}
     /\ \E p \in Selected :
           /\ source0[p[1]].fns[p[2]].schedule
           /\ ~source0[p[1]].fns[p[2]].eventTrigger.present)
        => (pcP = "thrown" /\ error = "ValidationError")

====
